---- MODULE Spec2Model ----
(***************************************************************************)
(* sharepointlib: the pydantic (v1) response shapes of models.py and the   *)
(* request / status / export / validate template of sharepoint.py.         *)
(*                                                                         *)
(* JSON values are records [k, s]: k is the JSON kind, s the text as a     *)
(* sequence of tokens (names are sequences of one-character tokens so      *)
(* that "split on '.'" is computed, not assumed).                          *)
(***************************************************************************)
EXTENDS Integers, Sequences, FiniteSets, TLC

\* ------------------------------------------------------------------ bounds
MaxNameLen == 3
MaxItems == 3

\* ------------------------------------------------------------- JSON values
Absent == [k |-> "absent", s |-> <<>>]
None == [k |-> "null", s |-> <<>>]
Str(s) == [k |-> "str", s |-> s]
Num(s) == [k |-> "num", s |-> s]
Bool(s) == [k |-> "bool", s |-> s]
Map(s) == [k |-> "map", s |-> s]
IntV(s) == [k |-> "int", s |-> s]
DateTime(s) == [k |-> "datetime", s |-> s]

\* The lastModifiedBy principal: a JSON value whose "user" entry is kept
\* structured.  other = the mapping has some key besides "user".
NoUser == [k |-> "absent", displayName |-> Absent, email |-> Absent]
Principal(k, other, user) == [k |-> k, other |-> other, user |-> user]
User(dn, em) == [k |-> "map", displayName |-> dn, email |-> em]
AbsentPrincipal == Principal("absent", FALSE, NoUser)
NonePrincipal == Principal("null", FALSE, NoUser)

\* ------------------------------------------------------------ field tables
\* One entry per declared field, in declaration order (pydantic validates in
\* this order and hands each validator only the fields validated before it).
\* alias = "" when the field is declared without Field(alias=...).
F(name, alias, type, required, pre) ==
    [name |-> name, alias |-> alias, type |-> type, required |-> required, pre |-> pre]

\* (mutant) name declared without a default
GetSiteInfo_name_required ==
    << F("id", "id", "str", TRUE, "none"),
       F("name", "name", "str", TRUE, "none"),
       F("display_name", "displayName", "str", FALSE, "none"),
       F("web_url", "webUrl", "str", FALSE, "none"),
       F("created_date_time", "createdDateTime", "datetime", TRUE, "none"),
       F("last_modified_date_time", "lastModifiedDateTime", "datetime", FALSE, "none") >>

\* (mutant) last_modified_date_time declared without a default
GetSiteInfo_modified_required ==
    << F("id", "id", "str", TRUE, "none"),
       F("name", "name", "str", FALSE, "none"),
       F("display_name", "displayName", "str", FALSE, "none"),
       F("web_url", "webUrl", "str", FALSE, "none"),
       F("created_date_time", "createdDateTime", "datetime", TRUE, "none"),
       F("last_modified_date_time", "lastModifiedDateTime", "datetime", TRUE, "none") >>

GetSiteInfo ==
    << F("id", "id", "str", TRUE, "none"),
       F("name", "name", "str", FALSE, "none"),
       F("display_name", "displayName", "str", FALSE, "none"),
       F("web_url", "webUrl", "str", FALSE, "none"),
       F("created_date_time", "createdDateTime", "datetime", TRUE, "none"),
       F("last_modified_date_time", "lastModifiedDateTime", "datetime", FALSE, "none") >>

GetHostNameInfo ==
    << F("id", "id", "str", TRUE, "none"),
       F("name", "name", "str", FALSE, "none"),
       F("display_name", "displayName", "str", FALSE, "none"),
       F("description", "description", "str", FALSE, "none"),
       F("web_url", "webUrl", "str", FALSE, "none"),
       F("site_collection", "siteCollection", "dict", FALSE, "none"),
       F("created_date_time", "createdDateTime", "datetime", TRUE, "none"),
       F("last_modified_date_time", "lastModifiedDateTime", "datetime", FALSE, "none") >>

ListDrives ==
    << F("id", "id", "str", TRUE, "none"),
       F("name", "name", "str", FALSE, "none"),
       F("description", "description", "str", FALSE, "none"),
       F("web_url", "webUrl", "str", FALSE, "none"),
       F("drive_type", "driveType", "str", FALSE, "none"),
       F("created_date_time", "createdDateTime", "datetime", TRUE, "none"),
       F("last_modified_date_time", "lastModifiedDateTime", "datetime", FALSE, "none") >>

GetDirInfo ==
    << F("id", "id", "str", TRUE, "none"),
       F("name", "name", "str", FALSE, "none"),
       F("web_url", "webUrl", "str", FALSE, "none"),
       F("size", "size", "int", FALSE, "none"),
       F("created_date_time", "createdDateTime", "datetime", TRUE, "none"),
       F("last_modified_date_time", "lastModifiedDateTime", "datetime", FALSE, "none") >>

ListDir ==
    << F("id", "id", "str", TRUE, "none"),
       F("name", "name", "str", TRUE, "none"),
       F("extension", "", "str", FALSE, "ListDir.set_extension"),
       F("size", "size", "int", FALSE, "none"),
       F("path", "", "str", FALSE, "none"),
       F("web_url", "webUrl", "str", FALSE, "none"),
       F("folder", "folder", "dict", FALSE, "none"),
       F("created_date_time", "createdDateTime", "datetime", TRUE, "none"),
       F("last_modified_date_time", "lastModifiedDateTime", "datetime", FALSE, "none"),
       F("last_modified_by", "lastModifiedBy", "dict", FALSE, "none"),
       F("last_modified_by_name", "", "str", FALSE, "ListDir.set_last_modified_by_name"),
       F("last_modified_by_email", "", "str", FALSE, "ListDir.set_last_modified_by_email") >>

CreateDir ==
    << F("id", "id", "str", TRUE, "none"),
       F("name", "name", "str", FALSE, "none"),
       F("web_url", "webUrl", "str", FALSE, "none"),
       F("created_date_time", "createdDateTime", "datetime", TRUE, "none") >>

RenameFolder ==
    << F("id", "id", "str", TRUE, "none"),
       F("name", "name", "str", TRUE, "none"),
       F("web_url", "webUrl", "str", FALSE, "none"),
       F("created_date_time", "createdDateTime", "datetime", TRUE, "none"),
       F("last_modified_date_time", "lastModifiedDateTime", "datetime", FALSE, "none") >>

\* (mutant) the display name is derived too, as in ListDir
GetFileInfo_with_name ==
    << F("id", "id", "str", TRUE, "none"),
       F("name", "name", "str", TRUE, "none"),
       F("web_url", "webUrl", "str", FALSE, "none"),
       F("size", "size", "int", FALSE, "none"),
       F("created_date_time", "createdDateTime", "datetime", TRUE, "none"),
       F("last_modified_date_time", "lastModifiedDateTime", "datetime", FALSE, "none"),
       F("last_modified_by", "lastModifiedBy", "dict", FALSE, "none"),
       F("last_modified_by_name", "", "str", FALSE, "ListDir.set_last_modified_by_name"),
       F("last_modified_by_email", "", "str", FALSE, "GetFileInfo.set_last_modified_by_email") >>

GetFileInfo ==
    << F("id", "id", "str", TRUE, "none"),
       F("name", "name", "str", TRUE, "none"),
       F("web_url", "webUrl", "str", FALSE, "none"),
       F("size", "size", "int", FALSE, "none"),
       F("created_date_time", "createdDateTime", "datetime", TRUE, "none"),
       F("last_modified_date_time", "lastModifiedDateTime", "datetime", FALSE, "none"),
       F("last_modified_by", "lastModifiedBy", "dict", FALSE, "none"),
       F("last_modified_by_email", "", "str", FALSE, "GetFileInfo.set_last_modified_by_email") >>

MoveFile ==
    << F("id", "id", "str", TRUE, "none"),
       F("name", "name", "str", TRUE, "none"),
       F("web_url", "webUrl", "str", FALSE, "none"),
       F("size", "size", "int", FALSE, "none"),
       F("created_date_time", "createdDateTime", "datetime", TRUE, "none"),
       F("last_modified_date_time", "lastModifiedDateTime", "datetime", FALSE, "none") >>

RenameFile ==
    << F("id", "id", "str", TRUE, "none"),
       F("name", "name", "str", TRUE, "none"),
       F("web_url", "webUrl", "str", FALSE, "none"),
       F("size", "size", "int", FALSE, "none"),
       F("created_date_time", "createdDateTime", "datetime", TRUE, "none"),
       F("last_modified_date_time", "lastModifiedDateTime", "datetime", FALSE, "none") >>

\* (mutant) id declared with a None default
UploadFile_id_optional ==
    << F("id", "id", "str", FALSE, "none"),
       F("name", "name", "str", FALSE, "none"),
       F("size", "size", "int", FALSE, "none") >>

UploadFile ==
    << F("id", "id", "str", TRUE, "none"),
       F("name", "name", "str", FALSE, "none"),
       F("size", "size", "int", FALSE, "none") >>

ListLists ==
    << F("id", "id", "str", TRUE, "none"),
       F("name", "name", "str", FALSE, "none"),
       F("display_name", "displayName", "str", FALSE, "none"),
       F("description", "description", "str", FALSE, "none"),
       F("web_url", "webUrl", "str", FALSE, "none"),
       F("created_date_time", "createdDateTime", "datetime", TRUE, "none"),
       F("last_modified_date_time", "lastModifiedDateTime", "datetime", FALSE, "none") >>

ListListColumns ==
    << F("id", "id", "str", TRUE, "none"),
       F("name", "name", "str", TRUE, "none"),
       F("display_name", "displayName", "str", TRUE, "none"),
       F("description", "description", "str", TRUE, "none"),
       F("column_group", "columnGroup", "str", TRUE, "none"),
       F("enforce_unique_values", "enforceUniqueValues", "bool", TRUE, "none"),
       F("hidden", "hidden", "bool", TRUE, "none"),
       F("indexed", "indexed", "bool", TRUE, "none"),
       F("read_only", "readOnly", "bool", TRUE, "none"),
       F("required", "required", "bool", TRUE, "none") >>

AddListItem ==
    << F("id", "id", "str", TRUE, "none"),
       F("name", "name", "str", FALSE, "none"),
       F("web_url", "webUrl", "str", FALSE, "none"),
       F("created_date_time", "createdDateTime", "datetime", TRUE, "none") >>

Shapes ==
    { "GetSiteInfo", "GetHostNameInfo", "ListDrives", "GetDirInfo", "ListDir",
      "CreateDir", "RenameFolder", "GetFileInfo", "MoveFile", "RenameFile",
      "UploadFile", "ListLists", "ListListColumns", "AddListItem" }

Fields(model) ==
    CASE model = "GetSiteInfo" -> GetSiteInfo
      [] model = "GetHostNameInfo" -> GetHostNameInfo
      [] model = "ListDrives" -> ListDrives
      [] model = "GetDirInfo" -> GetDirInfo
      [] model = "ListDir" -> ListDir
      [] model = "CreateDir" -> CreateDir
      [] model = "RenameFolder" -> RenameFolder
      [] model = "GetFileInfo" -> GetFileInfo
      [] model = "MoveFile" -> MoveFile
      [] model = "RenameFile" -> RenameFile
      [] model = "UploadFile" -> UploadFile
      [] model = "ListLists" -> ListLists
      [] model = "ListListColumns" -> ListListColumns
      [] model = "AddListItem" -> AddListItem

\* (mutant) no dict() override
Exclude_nothing(model) == {}

\* dict(): the fields a shape's dict() override leaves out of the export.
Exclude(model) ==
    CASE model = "ListDir" -> {"folder", "last_modified_by"}
      [] model = "GetFileInfo" -> {"last_modified_by"}
      [] OTHER -> {}

\* ------------------------------------------------------- field validation
Ok(v) == [exc |-> "none", v |-> v]
Raise(exc, v) == [exc |-> exc, v |-> v]

\* values.get(key) is None
GetIsNone(values, key) == key \notin DOMAIN values \/ values[key].k = "null"

HasDot(s) == \E i \in 1..Len(s) : s[i] = "."
LastDot(s) == CHOOSE i \in 1..Len(s) : s[i] = "." /\ \A j \in (i+1)..Len(s) : s[j] # "."
\* (mutant) name.split(".", 1)[-1]: everything after the first "."
FirstDot(s) == CHOOSE i \in 1..Len(s) : s[i] = "." /\ \A j \in 1..(i-1) : s[j] # "."
AfterFirstDot(s) == SubSeq(s, FirstDot(s) + 1, Len(s))
\* name.split(".")[-1], for a name that holds a "."
LastSegment(s) == SubSeq(s, LastDot(s) + 1, Len(s))

\* ListDir.set_extension: reads the fields validated before "extension".
set_extension(v, values) ==
    IF GetIsNone(values, "folder")
    THEN IF "name" \notin DOMAIN values
         THEN Raise("KeyError", v)
         ELSE IF HasDot(values["name"].s)
              THEN Ok(Str(LastSegment(values["name"].s)))
              ELSE Ok(None)
    ELSE Ok(None)

\* `last_modified_by and "user" in last_modified_by and key in last_modified_by["user"]`
\* key is "displayName" or "email"; a user that is null makes `in` a TypeError.
UserEntry(values, key) ==
    LET lmb == IF "last_modified_by" \in DOMAIN values
               THEN values["last_modified_by"] ELSE NonePrincipal
        truthy == lmb.k = "map" /\ (lmb.other \/ lmb.user.k # "absent")
        entry == IF key = "displayName" THEN lmb.user.displayName ELSE lmb.user.email
    IN  IF ~truthy \/ lmb.user.k = "absent" THEN Ok(None)
        ELSE IF lmb.user.k # "map" THEN Raise("TypeError", None)
        ELSE IF entry.k = "absent" THEN Ok(None)
        ELSE Ok(entry)

\* (mutant) without the `"user" in last_modified_by` test
set_last_modified_by_name_unguarded(v, values) ==
    IF "last_modified_by" \in DOMAIN values
       /\ values["last_modified_by"].k = "map"
       /\ values["last_modified_by"].other
       /\ values["last_modified_by"].user.k = "absent"
    THEN Raise("KeyError", None)
    ELSE UserEntry(values, "displayName")

set_last_modified_by_name(v, values) == UserEntry(values, "displayName")

ListDir_set_last_modified_by_email(v, values) == UserEntry(values, "email")

GetFileInfo_set_last_modified_by_email(v, values) == UserEntry(values, "email")

\* (mutant) a value the input supplies is kept
ApplyPre_supplied(pre, v, values) ==
    IF v.k # "null" THEN Ok(v)
    ELSE CASE pre = "ListDir.set_extension" -> set_extension(v, values)
           [] pre = "ListDir.set_last_modified_by_name" -> set_last_modified_by_name(v, values)
           [] pre = "ListDir.set_last_modified_by_email"
                -> ListDir_set_last_modified_by_email(v, values)
           [] pre = "GetFileInfo.set_last_modified_by_email"
                -> GetFileInfo_set_last_modified_by_email(v, values)
           [] OTHER -> Ok(v)

ApplyPre(pre, v, values) ==
    CASE pre = "ListDir.set_extension" -> set_extension(v, values)
      [] pre = "ListDir.set_last_modified_by_name" -> set_last_modified_by_name(v, values)
      [] pre = "ListDir.set_last_modified_by_email" -> ListDir_set_last_modified_by_email(v, values)
      [] pre = "GetFileInfo.set_last_modified_by_email" -> GetFileInfo_set_last_modified_by_email(v, values)
      [] OTHER -> Ok(v)

\* The date-times the remote sends, and the instant a numeric timestamp denotes.
IsoStrings == {"2024-01-01T00:00:00Z", "2024-06-30T12:00:00Z"}
FromTimestamp(s) == IF s = <<"0">> THEN <<"1970-01-01T00:00:00Z">> ELSE <<"1970-01-01T00:00:01Z">>

\* pydantic v1 coercions of the declared types (non-strict): a number is
\* accepted as a str (its decimal text) and as a datetime (unix seconds).
\* (mutant) a strict str: only a JSON string is accepted
str_validator_strict(v) ==
    CASE v.k = "str" -> Ok(Str(v.s))
      [] OTHER -> Raise("type_error.str", v)

str_validator(v) ==
    CASE v.k = "str" -> Ok(Str(v.s))
      [] v.k = "num" -> Ok(Str(v.s))
      [] OTHER -> Raise("type_error.str", v)

int_validator(v) ==
    CASE v.k = "num" -> Ok(IntV(v.s))
      [] OTHER -> Raise("type_error.integer", v)

bool_validator(v) ==
    CASE v.k = "bool" -> Ok(Bool(v.s))
      [] OTHER -> Raise("type_error.bool", v)

\* (mutant) the timestamp text is kept as a string
parse_datetime_text(v) ==
    CASE v.k = "str" /\ Len(v.s) = 1 /\ v.s[1] \in IsoStrings -> Ok(Str(v.s))
      [] v.k = "num" -> Ok(Str(v.s))
      [] OTHER -> Raise("value_error.datetime", v)

parse_datetime(v) ==
    CASE v.k = "str" /\ Len(v.s) = 1 /\ v.s[1] \in IsoStrings -> Ok(DateTime(v.s))
      [] v.k = "num" -> Ok(DateTime(FromTimestamp(v.s)))
      [] OTHER -> Raise("value_error.datetime", v)

dict_validator(v) ==
    CASE v.k = "map" -> Ok(v)
      [] OTHER -> Raise("type_error.dict", v)

TypeValidate(type, v) ==
    CASE type = "str" -> str_validator(v)
      [] type = "int" -> int_validator(v)
      [] type = "bool" -> bool_validator(v)
      [] type = "datetime" -> parse_datetime(v)
      [] type = "dict" -> dict_validator(v)

\* The key a field is read from: its alias, or its own name without one.
Key(f) == IF f.alias = "" THEN f.name ELSE f.alias
ValidateAlways(f) == f.pre # "none"
Err(f, type) == [loc |-> Key(f), type |-> type]

\* ModelField.validate: pre-validators, the None rule, the type's validator.
\* A KeyError leaves pydantic uncaught; ValueError/TypeError become errors.
AfterPre(f, p) ==
    IF p.exc # "none" THEN p
    ELSE IF p.v.k = "null"
         THEN IF f.required THEN Raise("type_error.none.not_allowed", None) ELSE Ok(None)
         ELSE TypeValidate(f.type, p.v)

FieldValidate(f, v, values) == AfterPre(f, ApplyPre(f.pre, v, values))

\* validate_model, one field: st = [values, errors, exc] of the fields before,
\* r the outcome of the field's validate() on the value read (or the default).
FieldAdd(f, st, missing, r) ==
    IF st.exc # "none" THEN st
    ELSE IF missing /\ f.required
    THEN [st EXCEPT !.errors = Append(@, Err(f, "value_error.missing"))]
    ELSE IF missing /\ ~ValidateAlways(f)
    THEN [st EXCEPT !.values = (f.name :> None) @@ @]
    ELSE IF r.exc = "KeyError"
    THEN [st EXCEPT !.exc = "KeyError"]
    ELSE IF r.exc # "none"
    THEN [st EXCEPT !.errors = Append(@, Err(f, r.exc))]
    ELSE [st EXCEPT !.values = (f.name :> r.v) @@ @]

ValueRead(f, raw) == IF raw[Key(f)].k = "absent" THEN None ELSE raw[Key(f)]

FieldStep(f, raw, st) ==
    FieldAdd(f, st, raw[Key(f)].k = "absent", FieldValidate(f, ValueRead(f, raw), st.values))

\* validate_model: the fields in declaration order.
validate_model(model, raw) ==
    LET fields == Fields(model)
        st[i \in 0..Len(fields)] ==
            IF i = 0 THEN [values |-> <<>>, errors |-> <<>>, exc |-> "none"]
            ELSE FieldStep(fields[i], raw, st[i - 1])
    IN  st[Len(fields)]

\* ------------------------------------------------------- _handle_response
\* BaseModel.dict() with the shape's exclude set.
dict(model, values) == [n \in (DOMAIN values) \ Exclude(model) |-> values[n]]

ItemErrors(item, errors) ==
    [j \in 1..Len(errors) |-> [item |-> item, loc |-> errors[j].loc, type |-> errors[j].type]]

\* parse_obj_as(list[model], content_raw), one member: every member is
\* validated and the members' errors are collected.  An exception pydantic
\* does not catch (KeyError) leaves at once.
\* acc = [validated, errors, processed, exc]
\* (mutant) fail-fast: nothing is validated after the first member in error
MemberAdd_failfast(i, acc, r) ==
    IF acc.exc # "none" \/ acc.errors # <<>> THEN acc
    ELSE IF r.exc # "none" THEN [acc EXCEPT !.processed = i, !.exc = r.exc]
    ELSE IF r.errors # <<>>
    THEN [acc EXCEPT !.processed = i, !.errors = @ \o ItemErrors(i, r.errors)]
    ELSE [acc EXCEPT !.processed = i, !.validated = Append(@, r.values)]

MemberAdd(i, acc, r) ==
    IF acc.exc # "none" THEN acc
    ELSE IF r.exc # "none" THEN [acc EXCEPT !.processed = i, !.exc = r.exc]
    ELSE IF r.errors # <<>>
    THEN [acc EXCEPT !.processed = i, !.errors = @ \o ItemErrors(i, r.errors)]
    ELSE [acc EXCEPT !.processed = i, !.validated = Append(@, r.values)]

MemberStep(model, raw, i, acc) == MemberAdd(i, acc, validate_model(model, raw))

parse_obj_as(model, content_raw) ==
    LET acc[i \in 0..Len(content_raw)] ==
            IF i = 0
            THEN [validated |-> <<>>, errors |-> <<>>, processed |-> 0, exc |-> "none"]
            ELSE MemberStep(model, content_raw[i], i, acc[i - 1])
    IN  acc[Len(content_raw)]

\* What a call hands back: a Response (kind "return") or an exception.
NullContent == [k |-> "null", items |-> <<>>]
NoResult ==
    [kind |-> "none", status_code |-> 0, content |-> NullContent,
     exc |-> "none", errors |-> <<>>, processed |-> 0]
Return(status_code, content) ==
    [NoResult EXCEPT !.kind = "return", !.status_code = status_code, !.content = content]
Raised(exc, errors, processed) ==
    [NoResult EXCEPT !.kind = "raise", !.exc = exc, !.errors = errors, !.processed = processed]

\* _handle_response: [exc, errors, processed, content]; the members' errors
\* leave as one ValidationError after the last member.  The body of a list
\* response is its "value" array; a scalar body is carried as a 1-sequence.
Dicts(model, validated) == [j \in 1..Len(validated) |-> dict(model, validated[j])]

\* (mutant) the members that validated are returned whatever the others did
ListOutcome_partial(model, a) ==
    [exc |-> "none", errors |-> <<>>, processed |-> a.processed,
     content |-> [k |-> "list", items |-> Dicts(model, a.validated)]]

ListOutcome(model, a) ==
    IF a.exc # "none"
    THEN [exc |-> a.exc, errors |-> <<>>, processed |-> a.processed, content |-> NullContent]
    ELSE IF a.errors # <<>>
    THEN [exc |-> "ValidationError", errors |-> a.errors, processed |-> a.processed,
          content |-> NullContent]
    ELSE [exc |-> "none", errors |-> <<>>, processed |-> a.processed,
          content |-> [k |-> "list", items |-> Dicts(model, a.validated)]]

HandleList(model, body) == ListOutcome(model, parse_obj_as(model, body))

ScalarOutcome(model, r) ==
    IF r.exc # "none"
    THEN [exc |-> r.exc, errors |-> <<>>, processed |-> 1, content |-> NullContent]
    ELSE IF r.errors # <<>>
    THEN [exc |-> "ValidationError", errors |-> ItemErrors(0, r.errors), processed |-> 1,
          content |-> NullContent]
    ELSE [exc |-> "none", errors |-> <<>>, processed |-> 1,
          content |-> [k |-> "dict", items |-> <<dict(model, r.values)>>]]

HandleScalar(model, body) == ScalarOutcome(model, validate_model(model, body[1]))

handle_response(model, rtype, body) ==
    IF rtype = "scalar" THEN HandleScalar(model, body) ELSE HandleList(model, body)

\* ------------------------------------------------- the remote's raw objects
Alphabet == {"a", "b", "."}
Names == UNION { [1..n -> Alphabet] : n \in 1..MaxNameLen }

UnaliasedKeys == {"extension", "path", "last_modified_by_name", "last_modified_by_email"}
RawKeys ==
    { "id", "name", "displayName", "description", "webUrl", "siteCollection",
      "driveType", "size", "folder", "createdDateTime", "lastModifiedDateTime",
      "lastModifiedBy", "columnGroup", "enforceUniqueValues", "hidden", "indexed",
      "readOnly", "required" } \cup UnaliasedKeys

\* The keys a shape reads from the raw object.
ReadKeys(model) == { Key(Fields(model)[i]) : i \in 1..Len(Fields(model)) }

Ann == User(Str(<<"Ann">>), Str(<<"ann@corp">>))
Full ==
    [k \in RawKeys |->
        CASE k = "id" -> Str(<<"i1">>)
          [] k = "name" -> Str(<<"a", ".", "b">>)
          [] k = "displayName" -> Str(<<"Team Site">>)
          [] k = "description" -> Str(<<"about">>)
          [] k = "webUrl" -> Str(<<"https://corp/x">>)
          [] k = "siteCollection" -> Map(<<"hostname">>)
          [] k = "driveType" -> Str(<<"documentLibrary">>)
          [] k = "size" -> Num(<<"3">>)
          [] k = "createdDateTime" -> Str(<<"2024-01-01T00:00:00Z">>)
          [] k = "lastModifiedDateTime" -> Str(<<"2024-06-30T12:00:00Z">>)
          [] k = "lastModifiedBy" -> Principal("map", FALSE, Ann)
          [] k = "columnGroup" -> Str(<<"Custom">>)
          [] k \in {"enforceUniqueValues", "hidden", "indexed", "readOnly", "required"}
               -> Bool(<<"false">>)
          [] OTHER -> Absent]

AbsentOf(k) == IF k = "lastModifiedBy" THEN AbsentPrincipal ELSE Absent

\* A complete, valid raw object of the shape: every selected field present.
Base(model) ==
    [k \in RawKeys |-> IF k \in ReadKeys(model) THEN Full[k] ELSE AbsentOf(k)]

\* Base with some keys replaced; keys the shape does not read stay absent.
With(model, changes) ==
    [k \in RawKeys |->
        IF k \in DOMAIN changes /\ k \in ReadKeys(model) THEN changes[k] ELSE Base(model)[k]]

IdValues == {Absent, None, Str(<<"i1">>), Num(<<"7">>), Map(<<"x">>)}
CreatedValues ==
    {Absent, Str(<<"2024-01-01T00:00:00Z">>), Str(<<"yesterday">>), Num(<<"0">>)}
FolderValues == {Absent, None, Map(<<"childCount">>)}
PrincipalValues ==
    { AbsentPrincipal, NonePrincipal,
      Principal("str", FALSE, NoUser),
      Principal("map", FALSE, NoUser),
      Principal("map", TRUE, NoUser),
      Principal("map", FALSE, [NoUser EXCEPT !.k = "null"]),
      Principal("map", FALSE, User(Absent, Absent)),
      Principal("map", FALSE, User(Str(<<"Ann">>), Absent)),
      Principal("map", TRUE, User(Absent, Str(<<"ann@corp">>))),
      Principal("map", FALSE, Ann) }
OptionalKeys == {"name", "displayName", "description", "webUrl", "lastModifiedDateTime"}
Supplied ==
    { <<>>,
      [k \in UnaliasedKeys |-> Str(<<"supplied">>)] }

\* The raw objects a response of the shape is drawn from.
RawInputs(model) ==
    { With(model, [k \in {"id", "createdDateTime", "name"} |->
                       CASE k = "id" -> i [] k = "createdDateTime" -> c [] OTHER -> n]) :
        i \in IdValues, c \in CreatedValues, n \in {Absent, None, Full["name"]} }
    \cup
    { With(model, [k \in omitted |-> AbsentOf(k)]) : omitted \in SUBSET OptionalKeys }
    \cup
    { With(model, [k \in {"name", "folder"} |-> IF k = "name" THEN Str(n) ELSE f]) :
        n \in (IF "folder" \in ReadKeys(model) THEN Names ELSE {Full["name"].s}),
        f \in FolderValues }
    \cup
    { With(model, ("lastModifiedBy" :> p) @@ s) : p \in PrincipalValues, s \in Supplied }

\* The members of a listing with several items.
ListMembers(model) ==
    { Base(model),
      With(model, "id" :> Absent),
      With(model, "name" :> Absent),
      With(model, "name" :> Str(<<"a">>)),
      With(model, "folder" :> Map(<<"childCount">>)) }

Lists(model) ==
    { <<r>> : r \in RawInputs(model) }
    \cup UNION { [1..n -> ListMembers(model)] : n \in 0..MaxItems }

Bodies(model, rtype) ==
    IF rtype = "scalar" THEN { <<r>> : r \in RawInputs(model) } ELSE Lists(model)

\* ------------------------------------------------------------ the client
VARIABLES
    pc,        \* "new" before __init__, "idle" between calls, "returned" after one
    token,     \* _configuration.token
    files,     \* the save_as files _export_to_json has written
    call,      \* the public method running or last run, and its arguments
    sent,      \* the HTTP requests the call has issued, in order
    response,  \* the last HTTP response the call received
    received,  \* the HTTP responses the call received, in order
    result     \* what the call handed back to its caller

vars == <<pc, token, files, call, sent, response, received, result>>

StatusCodes == {200, 201, 202, 204, 404}
SaveAs == {None, Str(<<"out.json">>)}
Paths == {None, Str(<<>>), Str(<<"docs">>)}

Resp(status_code, body) == [status_code |-> status_code, body |-> body]
NoResponse == Resp(0, <<>>)
NoCall == [op |-> "none", save_as |-> None, path |-> None]
Called(op, save_as, path) == [op |-> op, save_as |-> save_as, path |-> path]

\* alias_list: the aliases of the fields declared with one, in field order.
HasAlias(f) == f.alias # ""
\* (mutant) field.alias of every field: a field without alias gives its name
alias_list_all(model) == [i \in 1..Len(Fields(model)) |-> Key(Fields(model)[i])]
alias_list(model) ==
    LET declared == SelectSeq(Fields(model), HasAlias)
    IN  [i \in 1..Len(declared) |-> declared[i].alias]

\* (mutant) the request carries a token asked for anew, not the stored one
Request_fresh_token(method, op, select) ==
    [method |-> method, op |-> op, token |-> Str(<<"tok2">>), select |-> select]

Request(method, op, select) ==
    [method |-> method, op |-> op, token |-> token, select |-> select]

\* A response of the remote service to a request for `model`: a success
\* status carries a body of the shape, any other status an error body.
Responses(model, rtype, success) ==
    { Resp(s, <<>>) : s \in StatusCodes \ success }
    \cup { Resp(s, b) : s \in success, b \in Bodies(model, rtype) }

\* _export_to_json
export_to_json(save_as) == IF save_as.k # "null" THEN {save_as} ELSE {}

\* (mutant) an exception of _handle_response is caught: content stays None
Validated_swallows(status_code, save_as, h) ==
    [written |-> export_to_json(save_as),
     out |-> IF h.exc # "none"
             THEN Return(status_code, NullContent)
             ELSE [Return(status_code, h.content) EXCEPT !.processed = h.processed]]

\* (mutant) the export is made once _handle_response has returned
Validated_exports_last(status_code, save_as, h) ==
    [written |-> IF h.exc # "none" THEN {} ELSE export_to_json(save_as),
     out |-> IF h.exc # "none"
             THEN Raised(h.exc, h.errors, h.processed)
             ELSE [Return(status_code, h.content) EXCEPT !.processed = h.processed]]

\* The part every validating method shares once its response has arrived:
\* status branch, export, _handle_response, Response.  [written, out]
Validated(status_code, save_as, h) ==
    [written |-> export_to_json(save_as),
     out |-> IF h.exc # "none"
             THEN Raised(h.exc, h.errors, h.processed)
             ELSE [Return(status_code, h.content) EXCEPT !.processed = h.processed]]

\* (mutant) the export is made before the status is looked at
Output_exports_first(model, rtype, success, save_as, resp) ==
    IF resp.status_code \in success
    THEN Validated(resp.status_code, save_as, handle_response(model, rtype, resp.body))
    ELSE [written |-> export_to_json(save_as), out |-> Return(resp.status_code, NullContent)]

Output(model, rtype, success, save_as, resp) ==
    IF resp.status_code \in success
    THEN Validated(resp.status_code, save_as, handle_response(model, rtype, resp.body))
    ELSE [written |-> {}, out |-> Return(resp.status_code, NullContent)]

\* The call ends: what it wrote and what it hands back.
Done(op, save_as, path, requests, resps, written, out) ==
    /\ pc' = "returned"
    /\ call' = Called(op, save_as, path)
    /\ sent' = requests
    /\ response' = resps[Len(resps)]
    /\ received' = resps
    /\ files' = files \cup written
    /\ result' = out
    /\ UNCHANGED token

Finish(op, save_as, requests, resps, o) ==
    Done(op, save_as, None, requests, resps, o.written, o.out)

\* (mutant) the request is issued a second time
Simple_twice(op, method, model, rtype, success, save_as, resp) ==
    Finish(op, save_as,
           <<Request(method, op, alias_list(model)), Request(method, op, alias_list(model))>>,
           <<resp>>, Output(model, rtype, success, save_as, resp))

\* One request, one response, the shared output part.
Simple(op, method, model, rtype, success, save_as, resp) ==
    Finish(op, save_as, <<Request(method, op, alias_list(model))>>, <<resp>>,
           Output(model, rtype, success, save_as, resp))

Init ==
    /\ pc = "new"
    /\ token = None
    /\ files = {}
    /\ call = NoCall
    /\ sent = <<>>
    /\ response = NoResponse
    /\ received = <<>>
    /\ result = NoResult

\* (mutant) a token is stored whatever the token endpoint answered
auth_stores_always ==
    /\ pc = "new"
    /\ \E status_code \in {200, 401} :
        /\ token' = Str(<<"tok">>)
        /\ response' = Resp(status_code, <<>>)
        /\ received' = <<Resp(status_code, <<>>)>>
    /\ pc' = "idle"
    /\ call' = Called("auth", None, None)
    /\ sent' = <<[method |-> "POST", op |-> "auth", token |-> None, select |-> <<>>]>>
    /\ UNCHANGED <<files, result>>

\* __init__ and the auth() it ends with: the token is stored on a 200 only.
auth ==
    /\ pc = "new"
    /\ \E status_code \in {200, 401} :
        /\ token' = IF status_code = 200 THEN Str(<<"tok">>) ELSE token
        /\ response' = Resp(status_code, <<>>)
        /\ received' = <<Resp(status_code, <<>>)>>
    /\ pc' = "idle"
    /\ call' = Called("auth", None, None)
    /\ sent' = <<[method |-> "POST", op |-> "auth", token |-> None, select |-> <<>>]>>
    /\ UNCHANGED <<files, result>>

get_site_info ==
    /\ pc = "idle"
    /\ \E save_as \in SaveAs, resp \in Responses("GetSiteInfo", "scalar", {200}) :
        Simple("get_site_info", "GET", "GetSiteInfo", "scalar", {200}, save_as, resp)

get_hostname_info ==
    /\ pc = "idle"
    /\ \E save_as \in SaveAs, resp \in Responses("GetHostNameInfo", "scalar", {200}) :
        Simple("get_hostname_info", "GET", "GetHostNameInfo", "scalar", {200}, save_as, resp)

list_drives ==
    /\ pc = "idle"
    /\ \E save_as \in SaveAs, resp \in Responses("ListDrives", "list", {200}) :
        Simple("list_drives", "GET", "ListDrives", "list", {200}, save_as, resp)

get_dir_info ==
    /\ pc = "idle"
    /\ \E save_as \in SaveAs, resp \in Responses("GetDirInfo", "scalar", {200}) :
        Simple("get_dir_info", "GET", "GetDirInfo", "scalar", {200}, save_as, resp)

\* (mutant) the records are returned as validated
AddPath_keeps(out, path) == out

\* (mutant) item["path"] = "/" if path is None else path
AddPath_none_only(out, path) ==
    IF out.kind = "return" /\ out.content.k = "list"
    THEN [out EXCEPT !.content.items =
            [j \in 1..Len(@) |->
                [@[j] EXCEPT !["path"] = IF path.k = "null" THEN Str(<<"/">>) ELSE path]]]
    ELSE out

\* item["path"] = path or "/"
AddPath(out, path) ==
    IF out.kind = "return" /\ out.content.k = "list"
    THEN [out EXCEPT !.content.items =
            [j \in 1..Len(@) |->
                [@[j] EXCEPT !["path"] = IF path.k = "null" \/ path.s = <<>>
                                         THEN Str(<<"/">>) ELSE path]]]
    ELSE out

ListDirDone(path, save_as, resp, o) ==
    Done("list_dir", save_as, path, <<Request("GET", "list_dir", alias_list("ListDir"))>>,
         <<resp>>, o.written, AddPath(o.out, path))

list_dir ==
    /\ pc = "idle"
    /\ \E path \in Paths, save_as \in SaveAs, resp \in Responses("ListDir", "list", {200}) :
        ListDirDone(path, save_as, resp, Output("ListDir", "list", {200}, save_as, resp))

create_dir ==
    /\ pc = "idle"
    /\ \E save_as \in SaveAs, resp \in Responses("CreateDir", "scalar", {200, 201}) :
        Simple("create_dir", "POST", "CreateDir", "scalar", {200, 201}, save_as, resp)

rename_folder ==
    /\ pc = "idle"
    /\ \E save_as \in SaveAs, resp \in Responses("RenameFolder", "scalar", {200}) :
        Simple("rename_folder", "PATCH", "RenameFolder", "scalar", {200}, save_as, resp)

get_file_info ==
    /\ pc = "idle"
    /\ \E save_as \in SaveAs, resp \in Responses("GetFileInfo", "scalar", {200, 202}) :
        Simple("get_file_info", "GET", "GetFileInfo", "scalar", {200, 202}, save_as, resp)

\* The responses to move_file's two lookups: a failure status, or a success
\* status with a body that validates or one that does not.
Lookups(model, success) ==
    { Resp(s, <<>>) : s \in StatusCodes \ success }
    \cup { Resp(s, b) : s \in success,
                        b \in { <<Base(model)>>, <<With(model, "id" :> Absent)>> } }

\* move_file: get_file_info, then get_dir_info, then the PATCH; each lookup
\* ends the call unless it returned 200 (an exception of a lookup leaves
\* move_file as it is).
\* (mutant) a lookup ends the call only on a status get_file_info rejects
LookupEnds_unless_accepted(out) == out.kind = "raise" \/ out.status_code \notin {200, 202}

LookupEnds(out) == out.kind = "raise" \/ out.status_code # 200
LookupResult(out) ==
    IF out.kind = "raise" THEN out
    ELSE [Return(out.status_code, NullContent) EXCEPT !.processed = out.processed]

FileInfoRequest == Request("GET", "get_file_info", alias_list("GetFileInfo"))
DirInfoRequest == Request("GET", "get_dir_info", alias_list("GetDirInfo"))
MoveRequest == Request("PATCH", "move_file", alias_list("MoveFile"))

MovePatch(save_as, r1, r2) ==
    \E r3 \in Responses("MoveFile", "scalar", {200}) :
        Finish("move_file", save_as, <<FileInfoRequest, DirInfoRequest, MoveRequest>>,
               <<r1, r2, r3>>,
               Output("MoveFile", "scalar", {200}, save_as, r3))

MoveAfterDir(save_as, r1, r2, o2) ==
    \/ /\ LookupEnds(o2)
       /\ Done("move_file", save_as, None, <<FileInfoRequest, DirInfoRequest>>, <<r1, r2>>,
               {}, LookupResult(o2))
    \/ /\ ~LookupEnds(o2)
       /\ MovePatch(save_as, r1, r2)

MoveAfterFile(save_as, r1, o1) ==
    \/ /\ LookupEnds(o1)
       /\ Done("move_file", save_as, None, <<FileInfoRequest>>, <<r1>>, {}, LookupResult(o1))
    \/ /\ ~LookupEnds(o1)
       /\ \E r2 \in Lookups("GetDirInfo", {200}) :
            MoveAfterDir(save_as, r1, r2,
                         Output("GetDirInfo", "scalar", {200}, None, r2).out)

move_file ==
    /\ pc = "idle"
    /\ \E save_as \in SaveAs, r1 \in Lookups("GetFileInfo", {200, 202}) :
        MoveAfterFile(save_as, r1, Output("GetFileInfo", "scalar", {200, 202}, None, r1).out)

rename_file ==
    /\ pc = "idle"
    /\ \E save_as \in SaveAs, resp \in Responses("RenameFile", "scalar", {200}) :
        Simple("rename_file", "PATCH", "RenameFile", "scalar", {200}, save_as, resp)

upload_file ==
    /\ pc = "idle"
    /\ \E save_as \in SaveAs, resp \in Responses("UploadFile", "scalar", {200, 201}) :
        Simple("upload_file", "PUT", "UploadFile", "scalar", {200, 201}, save_as, resp)

list_lists ==
    /\ pc = "idle"
    /\ \E save_as \in SaveAs, resp \in Responses("ListLists", "list", {200}) :
        Simple("list_lists", "GET", "ListLists", "list", {200}, save_as, resp)

list_list_columns ==
    /\ pc = "idle"
    /\ \E save_as \in SaveAs, resp \in Responses("ListListColumns", "list", {200}) :
        Simple("list_list_columns", "GET", "ListListColumns", "list", {200}, save_as, resp)

add_list_item ==
    /\ pc = "idle"
    /\ \E save_as \in SaveAs, resp \in Responses("AddListItem", "scalar", {201}) :
        Simple("add_list_item", "POST", "AddListItem", "scalar", {201}, save_as, resp)

\* The methods that validate nothing: one request, content None (or the
\* bytes / the items' "fields") on a success status.
Bytes == [k |-> "bytes", items |-> <<>>]
LocalPath == Str(<<"local_path">>)
Plain(op, method, resp, written, content) ==
    Done(op, None, None, <<Request(method, op, <<>>)>>, <<resp>>, written,
         Return(resp.status_code, content))

PlainResponses == { Resp(s, <<>>) : s \in StatusCodes }

delete_dir ==
    /\ pc = "idle"
    /\ \E resp \in PlainResponses : Plain("delete_dir", "DELETE", resp, {}, NullContent)

copy_file ==
    /\ pc = "idle"
    /\ \E resp \in PlainResponses : Plain("copy_file", "POST", resp, {}, NullContent)

delete_file ==
    /\ pc = "idle"
    /\ \E resp \in PlainResponses : Plain("delete_file", "DELETE", resp, {}, NullContent)

\* open(local_path, "wb") on a 200
Downloaded(status_code) == IF status_code = 200 THEN {LocalPath} ELSE {}

download_file ==
    /\ pc = "idle"
    /\ \E resp \in PlainResponses :
        Plain("download_file", "GET", resp, Downloaded(resp.status_code), NullContent)

download_file_to_memory ==
    /\ pc = "idle"
    /\ \E resp \in PlainResponses :
        Plain("download_file_to_memory", "GET", resp, {},
              IF resp.status_code = 200 THEN Bytes ELSE NullContent)

\* download_all_files: list_dir(path=remote_path), then one download_file
\* per listed item whose extension is not None; a failed download is the
\* item's status "fail", the Response keeps the listing's status.
Listings ==
    { Resp(s, <<>>) : s \in StatusCodes \ {200} }
    \cup { Resp(200, <<With("ListDir", "id" :> Absent)>>) }
    \cup { Resp(200, b) :
             b \in UNION { [1..n -> { Base("ListDir"),
                                      With("ListDir", "name" :> Str(<<"a">>)),
                                      With("ListDir", ("id" :> Str(<<"i2">>))
                                                      @@ ("folder" :> Map(<<"childCount">>))) }] :
                           n \in 0..MaxItems } }

\* (mutant) every listed item is downloaded
HasExtension_any(item) == TRUE

HasExtension(item) == item["extension"].k # "null"
SummaryKeys ==
    { "id", "name", "extension", "size", "path", "created_date_time",
      "last_modified_date_time", "last_modified_by_name", "last_modified_by_email",
      "status" }
Summary(item, status_code) ==
    [k \in SummaryKeys |->
        IF k = "status"
        THEN Str(<<IF status_code = 200 THEN "pass" ELSE "fail">>)
        ELSE item[k]]

ListDirRequest == Request("GET", "list_dir", alias_list("ListDir"))
DownloadRequest == Request("GET", "download_file", <<>>)

\* (mutant) the Response carries the status of the last download
DownloadEach_last_status(path, r1, o1, wanted, statuses) ==
    Done("download_all_files", None, path,
         <<ListDirRequest>> \o [i \in 1..Len(wanted) |-> DownloadRequest],
         <<r1>> \o [i \in 1..Len(wanted) |-> Resp(statuses[i], <<>>)],
         UNION { Downloaded(statuses[i]) : i \in 1..Len(wanted) },
         [Return(IF wanted = <<>> THEN o1.status_code ELSE statuses[Len(wanted)],
                 [k |-> "summary",
                  items |-> [i \in 1..Len(wanted) |-> Summary(wanted[i], statuses[i])]])
             EXCEPT !.processed = o1.processed])

DownloadEach(path, r1, o1, wanted, statuses) ==
    Done("download_all_files", None, path,
         <<ListDirRequest>> \o [i \in 1..Len(wanted) |-> DownloadRequest],
         <<r1>> \o [i \in 1..Len(wanted) |-> Resp(statuses[i], <<>>)],
         UNION { Downloaded(statuses[i]) : i \in 1..Len(wanted) },
         [Return(o1.status_code,
                 [k |-> "summary",
                  items |-> [i \in 1..Len(wanted) |-> Summary(wanted[i], statuses[i])]])
             EXCEPT !.processed = o1.processed])

DownloadListed(path, r1, o1, wanted) ==
    \E statuses \in [1..Len(wanted) -> {200, 404}] :
        DownloadEach(path, r1, o1, wanted, statuses)

DownloadAfterList(path, r1, o1) ==
    \/ /\ LookupEnds(o1)
       /\ Done("download_all_files", None, path, <<ListDirRequest>>, <<r1>>, {},
               LookupResult(o1))
    \/ /\ ~LookupEnds(o1)
       /\ DownloadListed(path, r1, o1, SelectSeq(o1.content.items, HasExtension))

download_all_files ==
    /\ pc = "idle"
    /\ \E r1 \in Listings :
        DownloadAfterList(Str(<<"docs">>), r1,
            AddPath(Output("ListDir", "list", {200}, None, r1).out, Str(<<"docs">>)))

\* list_list_items: content = [item["fields"] for item in response.json()["value"]];
\* the items are carried as [fields |-> ...], the select is the caller's.
FieldsItems == { <<>>, <<[fields |-> Map(<<"Title">>)]>>, <<[fields |-> Absent]>> }
ItemFields(body) ==
    IF \E i \in 1..Len(body) : body[i].fields.k = "absent"
    THEN Raised("KeyError", <<>>, 0)
    ELSE [NoResult EXCEPT !.kind = "return", !.status_code = 200,
                          !.content = [k |-> "fields", items |-> body]]

list_list_items ==
    /\ pc = "idle"
    /\ \E save_as \in SaveAs,
          resp \in { Resp(s, <<>>) : s \in StatusCodes \ {200} }
                   \cup { Resp(200, b) : b \in FieldsItems } :
        Done("list_list_items", save_as, None,
             <<Request("GET", "list_list_items", <<"fields">>)>>, <<resp>>,
             IF resp.status_code = 200 THEN export_to_json(save_as) ELSE {},
             IF resp.status_code = 200 THEN ItemFields(resp.body)
             ELSE Return(resp.status_code, NullContent))

delete_list_item ==
    /\ pc = "idle"
    /\ \E resp \in PlainResponses : Plain("delete_list_item", "DELETE", resp, {}, NullContent)

\* The caller takes the Response (or the exception); the client is idle again.
Taken ==
    /\ pc = "returned"
    /\ pc' = "idle"
    /\ call' = NoCall
    /\ sent' = <<>>
    /\ response' = NoResponse
    /\ received' = <<>>
    /\ result' = NoResult
    /\ UNCHANGED <<token, files>>

Next ==
    \/ auth
    \/ get_site_info
    \/ get_hostname_info
    \/ list_drives
    \/ get_dir_info
    \/ list_dir
    \/ create_dir
    \/ rename_folder
    \/ get_file_info
    \/ move_file
    \/ rename_file
    \/ upload_file
    \/ list_lists
    \/ list_list_columns
    \/ add_list_item
    \/ delete_dir
    \/ copy_file
    \/ delete_file
    \/ download_file
    \/ download_file_to_memory
    \/ download_all_files
    \/ list_list_items
    \/ delete_list_item
    \/ Taken

Spec == Init /\ [][Next]_vars

\* ================================================================== claims
\* The request whose response the call ended on, the shape it is validated
\* against, and whether the body went through _handle_response.
LastOp == sent[Len(sent)].op
\* The shape a request of the operation is answered in ("none": no shape).
ShapeOf(op) ==
    CASE op = "get_site_info" -> "GetSiteInfo"
      [] op = "get_hostname_info" -> "GetHostNameInfo"
      [] op = "list_drives" -> "ListDrives"
      [] op = "get_dir_info" -> "GetDirInfo"
      [] op = "list_dir" -> "ListDir"
      [] op = "create_dir" -> "CreateDir"
      [] op = "rename_folder" -> "RenameFolder"
      [] op = "get_file_info" -> "GetFileInfo"
      [] op = "move_file" -> "MoveFile"
      [] op = "rename_file" -> "RenameFile"
      [] op = "upload_file" -> "UploadFile"
      [] op = "list_lists" -> "ListLists"
      [] op = "list_list_columns" -> "ListListColumns"
      [] op = "add_list_item" -> "AddListItem"
      [] OTHER -> "none"
Shape == ShapeOf(LastOp)
IsListShape == Shape \in {"ListDrives", "ListDir", "ListLists", "ListListColumns"}
Handled ==
    /\ pc = "returned"
    /\ Shape # "none"
    /\ result.kind = "raise" \/ result.processed > 0
Body == response.body
Items == result.content.items
\* The call handed back validated content (move_file's lookups hand back none).
Normalized == Handled /\ result.kind = "return" /\ result.content.k \in {"dict", "list"}
ErrorAt(j, loc, type) ==
    \E e \in 1..Len(result.errors) :
        result.errors[e] = [item |-> IF IsListShape THEN j ELSE 0, loc |-> loc, type |-> type]
\* Single-object validation of a raw object succeeds.
Valid(model, raw) ==
    validate_model(model, raw).exc = "none" /\ validate_model(model, raw).errors = <<>>

\* C1: every returned directory-listing item whose raw object carries a
\* non-null folder marker has extension = null, whatever its name.
C1_FolderExtensionNull ==
    (Normalized /\ Shape = "ListDir") =>
        \A j \in 1..Len(Body) : Body[j]["folder"].k = "map" => Items[j]["extension"] = None

\* C2: a returned directory-listing item whose raw object has no folder
\* marker has extension = the part of name after its last ".", and null
\* exactly when name holds no ".".
Dotted(n) == \E i \in 1..Len(n) : n[i] = "."
IsAfterLastDot(n, e) ==
    \E i \in 1..Len(n) :
        /\ n[i] = "."
        /\ e = SubSeq(n, i + 1, Len(n))
        /\ \A x \in 1..Len(e) : e[x] # "."
C2_ExtensionAfterLastDot ==
    (Normalized /\ Shape = "ListDir") =>
        \A j \in 1..Len(Body) :
            (Body[j]["folder"].k \in {"absent", "null"} /\ Body[j]["name"].k = "str") =>
                /\ Dotted(Body[j]["name"].s) =>
                      /\ Items[j]["extension"].k = "str"
                      /\ IsAfterLastDot(Body[j]["name"].s, Items[j]["extension"].s)
                /\ ~Dotted(Body[j]["name"].s) <=> Items[j]["extension"] = None
C2_Witness ==
    /\ Normalized /\ Shape = "ListDir"
    /\ \E j \in 1..Len(Body) :
        /\ Body[j]["folder"].k = "absent"
        /\ Body[j]["name"] = Str(<<".", ".", "a">>)
        /\ Items[j]["extension"] = Str(<<"a">>)

\* C3: a lastModifiedBy that is null, absent, without "user", or whose user
\* mapping lacks displayName (resp. email) does not fail validation and
\* leaves last_modified_by_name (resp. last_modified_by_email) null; each of
\* the two is decided on its own.  GetFileInfo derives the email alone, so
\* the name half is read on ListDir.
LacksUser(p) == p.k \in {"absent", "null"} \/ (p.k = "map" /\ p.user.k = "absent")
LacksName(p) == LacksUser(p) \/ (p.k = "map" /\ p.user.k = "map" /\ p.user.displayName.k = "absent")
LacksEmail(p) == LacksUser(p) \/ (p.k = "map" /\ p.user.k = "map" /\ p.user.email.k = "absent")
WithAnn(raw) == [raw EXCEPT !["lastModifiedBy"] = Principal("map", FALSE, Ann)]
C3_MissingPrincipalIsNull ==
    (Handled /\ Shape \in {"ListDir", "GetFileInfo"}) =>
        \A j \in 1..Len(Body) :
            LET p == Body[j]["lastModifiedBy"]
            IN  /\ ((LacksName(p) \/ LacksEmail(p)) /\ Valid(Shape, WithAnn(Body[j])))
                      => Valid(Shape, Body[j])
                /\ (LacksName(p) \/ LacksEmail(p)) =>
                      /\ ~ErrorAt(j, "last_modified_by_name", "TypeError")
                      /\ ~ErrorAt(j, "last_modified_by_email", "TypeError")
                /\ (Normalized /\ LacksName(p) /\ Shape = "ListDir")
                      => Items[j]["last_modified_by_name"] = None
                /\ (Normalized /\ LacksEmail(p))
                      => Items[j]["last_modified_by_email"] = None
                /\ (Normalized /\ ~LacksName(p) /\ p.k = "map" /\ p.user.k = "map"
                               /\ Shape = "ListDir")
                      => Items[j]["last_modified_by_name"].k = "str"
C3_Witness ==
    /\ Normalized /\ Shape = "ListDir"
    /\ \E j \in 1..Len(Body) :
        /\ LacksEmail(Body[j]["lastModifiedBy"])
        /\ ~LacksName(Body[j]["lastModifiedBy"])
        /\ Items[j]["last_modified_by_name"] = Str(<<"Ann">>)
        /\ Items[j]["last_modified_by_email"] = None

\* C4: what list_dir and get_file_info return never holds the raw nested
\* objects (folder, last_modified_by), only the fields derived from them.
Derived(model) ==
    IF model = "ListDir"
    THEN {"extension", "last_modified_by_name", "last_modified_by_email"}
    ELSE {"last_modified_by_email"}
C4_RawNestedExcluded ==
    (Normalized /\ Shape \in {"ListDir", "GetFileInfo"}) =>
        \A j \in 1..Len(Items) :
            /\ {"folder", "last_modified_by"} \cap DOMAIN Items[j] = {}
            /\ Derived(Shape) \subseteq DOMAIN Items[j]
C4_Witness ==
    /\ Normalized /\ Shape = "ListDir"
    /\ \E j \in 1..Len(Body) :
        /\ Body[j]["folder"].k = "map"
        /\ Body[j]["lastModifiedBy"].k = "map"
        /\ "folder" \notin DOMAIN Items[j]
        /\ Items[j]["last_modified_by_name"] = Str(<<"Ann">>)

\* C5: when any member of a list response fails single-object validation
\* the list operation fails and returns no list, not even the valid members.
C5_NoPartialList ==
    (Handled /\ IsListShape /\ \E j \in 1..Len(Body) : ~Valid(Shape, Body[j])) =>
        /\ result.kind = "raise"
        /\ result.content = NullContent
C5_Witness ==
    /\ Handled /\ IsListShape /\ Len(Body) = 3
    /\ Valid(Shape, Body[1]) /\ ~Valid(Shape, Body[2]) /\ Valid(Shape, Body[3])
    /\ result.kind = "raise"

\* C6 (as claimed): of three raw objects whose second lacks id, the third
\* is never validated.
C6_FailFast ==
    (Handled /\ IsListShape /\ Len(Body) = 3 /\ Valid(Shape, Body[1])
             /\ Body[2]["id"].k = "absent") =>
        /\ result.kind = "raise"
        /\ result.processed < 3
        /\ \A e \in 1..Len(result.errors) : result.errors[e].item # 3

\* C6 (amended): of three raw objects whose first is valid and whose second
\* lacks only its id, all three are validated before anything is raised;
\* what is raised reports the second member's missing id and the third
\* member's errors when it has some (or is the third member's own KeyError,
\* a directory-listing object without name), and no list is returned.
C6_AllMembersValidated ==
    (Handled /\ IsListShape /\ Len(Body) = 3 /\ Valid(Shape, Body[1])
             /\ Body[2]["id"].k = "absent" /\ Body[2]["name"].k = "str") =>
        /\ result.kind = "raise"
        /\ result.content = NullContent
        /\ result.processed = 3
        /\ result.exc = "ValidationError" =>
              /\ ErrorAt(2, "id", "value_error.missing")
              /\ ~Valid(Shape, Body[3]) =>
                    \E e \in 1..Len(result.errors) : result.errors[e].item = 3
        /\ result.exc # "ValidationError" =>
              /\ result.exc = "KeyError"
              /\ Shape = "ListDir"
              /\ Body[3]["name"].k \in {"absent", "null"}
C6_Witness ==
    /\ Handled /\ IsListShape /\ Len(Body) = 3 /\ Valid(Shape, Body[1])
    /\ Body[2]["id"].k = "absent" /\ Body[2]["name"].k = "str"
    /\ Body[3]["id"].k = "absent" /\ Body[3]["name"].k = "str"
    /\ result.processed = 3
    /\ ErrorAt(2, "id", "value_error.missing")
    /\ ErrorAt(3, "id", "value_error.missing")

\* A directory-listing member without name makes set_extension raise a
\* KeyError, which ends the validation in place of a validation error.
NamelessListing == Shape = "ListDir" /\ \E m \in 1..Len(Body) : Body[m]["name"].k \in {"absent", "null"}
FailsNaming(j, key, type) ==
    /\ result.kind = "raise"
    /\ result.exc = "ValidationError" => ErrorAt(j, key, type)
    /\ result.exc # "ValidationError" => (result.exc = "KeyError" /\ NamelessListing)

\* C7 (as claimed): in every shape a raw object without id or without
\* createdDateTime fails with a validation error naming the missing field.
C7_IdAndCreatedRequired ==
    Handled =>
        \A j \in 1..Len(Body) : \A key \in {"id", "createdDateTime"} :
            Body[j][key].k = "absent" =>
                /\ result.kind = "raise"
                /\ result.exc = "ValidationError"
                /\ ErrorAt(j, key, "value_error.missing")

\* C7 (amended): a raw object without id fails construction in every shape,
\* and one without createdDateTime in the twelve shapes that declare it;
\* the failure is a validation error naming the missing field, or the
\* KeyError of a directory-listing object that lacks name as well.
\* UploadFile and ListListColumns declare no creation timestamp and
\* validate without one.
C7_DeclaredRequiredAbsentFails ==
    Handled =>
        /\ \A j \in 1..Len(Body) :
              /\ Body[j]["id"].k = "absent" => FailsNaming(j, "id", "value_error.missing")
              /\ (Body[j]["createdDateTime"].k = "absent"
                    /\ Shape \notin {"UploadFile", "ListListColumns"})
                    => FailsNaming(j, "createdDateTime", "value_error.missing")
        /\ (Shape \in {"UploadFile", "ListListColumns"}
              /\ \A j \in 1..Len(Body) :
                    Body[j]["createdDateTime"].k = "absent" /\ Body[j] = Base(Shape))
              => result.kind = "return"
C7_Witness ==
    /\ Handled /\ Shape = "UploadFile"
    /\ Body[1]["id"].k = "absent" /\ Body[1]["createdDateTime"].k = "absent"
    /\ result.exc = "ValidationError"
    /\ ErrorAt(1, "id", "value_error.missing")
    /\ ~ErrorAt(1, "createdDateTime", "value_error.missing")

\* C8 (as claimed): a present id that is not a string, and a creation
\* timestamp that is no date-time, are rejected.
Unparseable(v) == v.k = "str" /\ v.s # <<>> /\ v.s[1] \notin IsoStrings
C8_WrongTypeRejected ==
    Handled =>
        \A j \in 1..Len(Body) :
            (Body[j]["id"].k \notin {"absent", "str"} \/ Unparseable(Body[j]["createdDateTime"]))
                => result.kind = "raise"

\* C8 (amended): an id that is null or a mapping, and a createdDateTime
\* string that is no date-time, are rejected; an id that is a JSON number
\* is coerced to its decimal text and accepted.
WithId(raw) == [raw EXCEPT !["id"] = Str(<<"i1">>)]
C8_NumberIdCoerced ==
    Handled =>
        \A j \in 1..Len(Body) :
            /\ Body[j]["id"].k = "null"
                  => FailsNaming(j, "id", "type_error.none.not_allowed")
            /\ Body[j]["id"].k = "map" => FailsNaming(j, "id", "type_error.str")
            /\ (Unparseable(Body[j]["createdDateTime"])
                  /\ Shape \notin {"UploadFile", "ListListColumns"})
                  => FailsNaming(j, "createdDateTime", "value_error.datetime")
            /\ Body[j]["id"].k = "num" =>
                  /\ Valid(Shape, WithId(Body[j])) => Valid(Shape, Body[j])
                  /\ Normalized => Items[j]["id"] = Str(Body[j]["id"].s)
C8_Witness ==
    /\ Normalized /\ Shape = "GetSiteInfo"
    /\ Body[1]["id"] = Num(<<"7">>)
    /\ Items[1]["id"] = Str(<<"7">>)

\* C9 (as claimed): in every shape a raw object without name, displayName,
\* description or webUrl validates and the field is null.
Descriptive == {"name", "displayName", "description", "webUrl"}
FieldOf(key) ==
    CASE key = "name" -> "name"
      [] key = "displayName" -> "display_name"
      [] key = "description" -> "description"
      [] key = "webUrl" -> "web_url"
      [] key = "lastModifiedDateTime" -> "last_modified_date_time"
Restored(raw, key) == [raw EXCEPT ![key] = Full[key]]
OmittedIsNull(j, key) ==
    /\ Valid(Shape, Restored(Body[j], key)) => Valid(Shape, Body[j])
    /\ Normalized => Items[j][FieldOf(key)] = None
C9_DescriptiveOptional ==
    Handled =>
        \A j \in 1..Len(Body) : \A key \in Descriptive \cap ReadKeys(Shape) :
            Body[j][key].k = "absent" => OmittedIsNull(j, key)

\* C9 (amended): a raw object without a descriptive field that its shape
\* declares with a None default validates and the field is null; name is
\* declared required by ListDir, GetFileInfo, RenameFolder, RenameFile,
\* MoveFile and ListListColumns (which requires displayName and description
\* too), and a raw object without it fails construction.
RequiredDescriptive(model) ==
    CASE model = "ListListColumns" -> {"name", "displayName", "description"}
      [] model \in {"ListDir", "GetFileInfo", "RenameFolder", "RenameFile", "MoveFile"}
           -> {"name"}
      [] OTHER -> {}
C9_DeclaredOptionalOmitted ==
    Handled =>
        \A j \in 1..Len(Body) : \A key \in Descriptive \cap ReadKeys(Shape) :
            Body[j][key].k = "absent" =>
                IF key \in RequiredDescriptive(Shape)
                THEN ~Valid(Shape, Body[j]) /\ result.kind = "raise"
                ELSE OmittedIsNull(j, key)
C9_Witness ==
    /\ Normalized /\ Shape = "GetSiteInfo"
    /\ \A key \in Descriptive \cap ReadKeys(Shape) :
          Body[1][key].k = "absent" /\ Items[1][FieldOf(key)] = None

\* C10: in every shape that declares a last-modified timestamp, a raw object
\* without lastModifiedDateTime validates, last_modified_date_time is null,
\* and no error is reported for it.
C10_MissingModifiedIsNull ==
    Handled =>
        \A j \in 1..Len(Body) :
            ("lastModifiedDateTime" \in ReadKeys(Shape)
                /\ Body[j]["lastModifiedDateTime"].k = "absent") =>
                /\ OmittedIsNull(j, "lastModifiedDateTime")
                /\ \A e \in 1..Len(result.errors) :
                      result.errors[e].loc # "lastModifiedDateTime"
C10_Witness ==
    /\ Normalized /\ Shape = "GetSiteInfo"
    /\ Body[1]["lastModifiedDateTime"].k = "absent"
    /\ Body[1]["name"].k = "str"
    /\ Items[1]["last_modified_date_time"] = None
    /\ Items[1]["created_date_time"] = DateTime(<<"2024-01-01T00:00:00Z">>)

\* The declared fields of the shape that have a remote name and are exported.
Remote(model) ==
    { i \in 1..Len(Fields(model)) :
        HasAlias(Fields(model)[i]) /\ Fields(model)[i].name \notin Exclude(model) }
RawOf(j, i) == Body[j][Fields(Shape)[i].alias]
ReadBack(j, i) == Items[j][Fields(Shape)[i].name]

\* C11 (as claimed): every exported field with a remote name reads back the
\* very value the raw object holds (a date-time string as that date-time).
SameValue(raw, out) ==
    /\ out.s = raw.s
    /\ <<raw.k, out.k>> \in { <<"null", "null">>, <<"str", "str">>, <<"str", "datetime">>,
                               <<"num", "int">>, <<"bool", "bool">>, <<"map", "map">> }
Coerced(type, raw) ==
    CASE raw.k \in {"absent", "null"} -> None
      [] type = "str" -> Str(raw.s)
      [] type = "int" -> IntV(raw.s)
      [] type = "datetime" /\ raw.k = "str" -> DateTime(raw.s)
      [] type = "datetime" /\ raw.k = "num" ->
            DateTime(IF raw.s = <<"0">> THEN <<"1970-01-01T00:00:00Z">>
                                        ELSE <<"1970-01-01T00:00:01Z">>)
      [] OTHER -> raw
Selected(r) == { sent[r].select[i] : i \in 1..Len(sent[r].select) }
Declared(model) ==
    CASE model = "ListDir" ->
            { "id", "name", "size", "webUrl", "folder", "createdDateTime",
              "lastModifiedDateTime", "lastModifiedBy" }
      [] model = "GetFileInfo" ->
            { "id", "name", "webUrl", "size", "createdDateTime",
              "lastModifiedDateTime", "lastModifiedBy" }
      [] OTHER -> { Fields(model)[i].alias : i \in 1..Len(Fields(model)) } \ {""}
C12_SelectIsDeclaredAliases ==
    pc = "returned" =>
        \A r \in 1..Len(sent) :
            ShapeOf(sent[r].op) # "none" =>
                /\ Selected(r) = Declared(ShapeOf(sent[r].op))
                /\ Len(sent[r].select) = Cardinality(Selected(r))
                /\ Selected(r) \cap UnaliasedKeys = {}
                /\ Selected(r) \subseteq RawKeys
C12_Witness ==
    /\ pc = "returned" /\ call.op = "list_dir" /\ result.kind = "return"
    /\ {"folder", "lastModifiedBy"} \subseteq Selected(1)
    /\ "extension" \notin Selected(1) /\ "path" \notin Selected(1)
    /\ Cardinality(Selected(1)) = 8

\* The status codes a public method treats as success.
Success(op) ==
    CASE op \in {"create_dir", "upload_file"} -> {200, 201}
      [] op \in {"delete_dir", "delete_file"} -> {200, 204}
      [] op \in {"get_file_info", "copy_file"} -> {200, 202}
      [] op = "delete_list_item" -> {204}
      [] op = "add_list_item" -> {201}
      [] OTHER -> {200}
\* The call ended on a response whose status its method does not accept.
EndsOnFailure == pc = "returned" /\ response.status_code \notin Success(call.op)
StatusOnly == Return(response.status_code, NullContent)

FileLookupAccepted ==
    call.op = "move_file" /\ LastOp = "get_file_info" /\ response.status_code = 202
DownloadFailed ==
    /\ call.op = "download_all_files" /\ LastOp = "download_file"
    /\ result.status_code = 200 /\ result.content.k = "summary"
    /\ Len(result.content.items) = Len(sent) - 1
    /\ result.content.items[Len(sent) - 1]["status"] = Str(<<"fail">>)
FailureOutcome ==
    /\ result.kind = "raise" => (FileLookupAccepted /\ ~Valid("GetFileInfo", Body[1]))
    /\ result.kind = "return" =>
          \/ result = StatusOnly
          \/ FileLookupAccepted /\ result = [StatusOnly EXCEPT !.processed = 1]
                                /\ Valid("GetFileInfo", Body[1])
          \/ DownloadFailed
C14_AuthenticatesOnce ==
    [][IF pc = "new"
       THEN Len(sent') = 1 /\ sent'[1].op = "auth" /\ sent'[1].method = "POST"
       ELSE /\ token' = token
            /\ \A r \in 1..Len(sent') : sent'[r].op # "auth" /\ sent'[r].token = token]_vars
C14_Witness ==
    /\ pc = "returned" /\ call.op = "move_file" /\ Len(sent) = 3
    /\ token = Str(<<"tok">>)
    /\ \A r \in 1..3 : sent[r].token = token

\* C15 (as claimed): every call has issued exactly one request when it returns.
C15_OneRequestPerCall == pc = "returned" => Len(sent) = 1

\* C15 (amended): every method but move_file and download_all_files issues
\* exactly one request.  move_file issues the file lookup, the directory
\* lookup and the PATCH in this order and stops at the first lookup that
\* raises or is not answered 200; download_all_files issues the listing
\* request and, when that is answered 200, one download request per listed
\* item whose extension is not null.
SentOps == [r \in 1..Len(sent) |-> sent[r].op]
MoveOps == <<"get_file_info", "get_dir_info", "move_file">>
EndedInLookup == result.kind = "raise" \/ result.status_code # 200
C15_RequestsPerCall ==
    pc = "returned" =>
        CASE call.op = "move_file" ->
                /\ Len(sent) \in 1..3
                /\ SentOps = SubSeq(MoveOps, 1, Len(sent))
                /\ Len(sent) < 3 => EndedInLookup
          [] call.op = "download_all_files" ->
                /\ SentOps[1] = "list_dir"
                /\ \A r \in 2..Len(sent) : SentOps[r] = "download_file"
                /\ EndedInLookup => Len(sent) = 1
                /\ ~EndedInLookup =>
                      /\ Len(sent) = 1 + Len(result.content.items)
                      /\ \A i \in 1..Len(result.content.items) :
                            result.content.items[i]["extension"].k = "str"
                      /\ Len(sent) = 1 =>
                            \A j \in 1..Len(Body) : ~Dotted(Body[j]["name"].s)
          [] OTHER -> Len(sent) = 1 /\ SentOps[1] = call.op
C15_Witness ==
    /\ pc = "returned" /\ call.op = "download_all_files"
    /\ Len(sent) = 3 /\ result.status_code = 200
    /\ result.content.items[1]["status"] = Str(<<"fail">>)
    /\ result.content.items[2]["status"] = Str(<<"pass">>)

\* C16 (as claimed): a file-info record exposes the display name found in
\* the raw lastModifiedBy.user, as a directory-listing record does.
HasDisplayName(p) == p.k = "map" /\ p.user.k = "map" /\ p.user.displayName.k = "str"
C16_FileInfoDerivesName ==
    (Normalized /\ Shape = "GetFileInfo" /\ HasDisplayName(Body[1]["lastModifiedBy"])) =>
        /\ "last_modified_by_name" \in DOMAIN Items[1]
        /\ Items[1]["last_modified_by_name"] = Body[1]["lastModifiedBy"].user.displayName

\* C16 (amended): the file-info shape derives the email alone, by the rule
\* of the directory-listing shape; a file-info record has no
\* last_modified_by_name whatever the raw lastModifiedBy holds, while a
\* directory-listing record exposes the display name.
HasEmail(p) == p.k = "map" /\ p.user.k = "map" /\ p.user.email.k = "str"
C16_FileInfoDerivesEmailOnly ==
    /\ (Normalized /\ Shape = "GetFileInfo") =>
          /\ "last_modified_by_name" \notin DOMAIN Items[1]
          /\ "last_modified_by_email" \in DOMAIN Items[1]
          /\ Items[1]["last_modified_by_email"] =
                IF HasEmail(Body[1]["lastModifiedBy"])
                THEN Body[1]["lastModifiedBy"].user.email ELSE None
    /\ (Normalized /\ Shape = "ListDir") =>
          \A j \in 1..Len(Body) :
              /\ Items[j]["last_modified_by_name"] =
                    IF HasDisplayName(Body[j]["lastModifiedBy"])
                    THEN Body[j]["lastModifiedBy"].user.displayName ELSE None
              /\ Items[j]["last_modified_by_email"] =
                    IF HasEmail(Body[j]["lastModifiedBy"])
                    THEN Body[j]["lastModifiedBy"].user.email ELSE None
C16_Witness ==
    /\ Normalized /\ Shape = "GetFileInfo"
    /\ Body[1]["lastModifiedBy"] = Principal("map", FALSE, Ann)
    /\ "last_modified_by_name" \notin DOMAIN Items[1]
    /\ Items[1]["last_modified_by_email"] = Str(<<"ann@corp">>)

\* C17: two raw objects that differ only in extension, last_modified_by_name
\* or last_modified_by_email (present or not, whatever the value) validate
\* to the same outcome, and the record returned is the record of the raw
\* object without these keys.
DerivedKeys == {"extension", "last_modified_by_name", "last_modified_by_email"}
SuppliedValues == {Absent, Str(<<"other">>), Map(<<"x">>)}
Override(raw, key, v) == [raw EXCEPT ![key] = v]
Stripped(raw) == [k \in DOMAIN raw |-> IF k \in DerivedKeys THEN Absent ELSE raw[k]]
SameButPath(item, values) ==
    /\ DOMAIN item = DOMAIN values
    /\ \A k \in DOMAIN item \ {"path"} : item[k] = values[k]
SameOutcome(raw, outcome) ==
    \A key \in DerivedKeys, v \in SuppliedValues :
        validate_model(Shape, Override(raw, key, v)) = outcome
C17_DerivedNeverSupplied ==
    (Handled /\ Shape \in {"ListDir", "GetFileInfo"}) =>
        /\ \A raw \in { Body[j] : j \in 1..Len(Body) } :
              SameOutcome(raw, validate_model(Shape, raw))
        /\ Normalized =>
              \A j \in 1..Len(Body) :
                  SameButPath(Items[j],
                              dict(Shape, validate_model(Shape, Stripped(Body[j])).values))
C17_Witness ==
    /\ Normalized /\ Shape = "ListDir"
    /\ Body[1]["extension"] = Str(<<"supplied">>)
    /\ Body[1]["last_modified_by_name"] = Str(<<"supplied">>)
    /\ Body[1]["lastModifiedBy"] = Principal("map", FALSE, User(Str(<<"Ann">>), Absent))
    /\ Items[1]["extension"] = Str(<<"b">>)
    /\ Items[1]["last_modified_by_name"] = Str(<<"Ann">>)
    /\ Items[1]["last_modified_by_email"] = None

\* The record construction gave: the shape validated and exported with dict().
Constructed(j) == dict(Shape, validate_model(Shape, Body[j]).values)

\* C18 (as claimed): every field of a returned record, path included, has
\* the value construction gave it.
C18_RecordImmutable ==
    Normalized => \A j \in 1..Len(Body) : Items[j] = Constructed(j)

\* C18 (amended): every field of a returned record other than path has the
\* value construction gave it; list_dir overwrites path in every record,
\* after construction and before it returns, with its path argument ("/"
\* when that is None or empty), whatever construction had put there; the
\* result does not change between the return and the caller taking it.
PathOrRoot == IF call.path.k = "null" \/ call.path.s = <<>> THEN Str(<<"/">>) ELSE call.path
C18_OnlyPathRewritten ==
    /\ [](Normalized =>
            \A j \in 1..Len(Body) :
                /\ SameButPath(Items[j], Constructed(j))
                /\ Shape = "ListDir" => Items[j]["path"] = PathOrRoot
                /\ Shape # "ListDir" => Items[j] = Constructed(j))
    /\ [][pc = "returned" => (pc' = "idle" /\ files' = files /\ token' = token)]_vars
C18_Witness ==
    /\ Normalized /\ Shape = "ListDir" /\ call.path = Str(<<"docs">>)
    /\ Body[1]["path"] = Str(<<"supplied">>)
    /\ Constructed(1)["path"] = Str(<<"supplied">>)
    /\ Items[1]["path"] = Str(<<"docs">>)

\* C19: every construction failure is a validation error that names the
\* field and the reason; a directory-listing object whose name is absent or
\* null fails with a validation error naming name.
C19_FailureIsValidationError ==
    (Handled /\ result.kind = "raise") =>
        /\ result.exc = "ValidationError"
        /\ result.errors # <<>>
        /\ \A j \in 1..Len(Body) :
              /\ Body[j]["name"].k = "absent" /\ Shape = "ListDir"
                    => ErrorAt(j, "name", "value_error.missing")
              /\ Body[j]["name"].k = "null" /\ Shape = "ListDir"
                    => ErrorAt(j, "name", "type_error.none.not_allowed")

\* C20: a response with a status its method accepts and a body that fails
\* validation makes the call raise (no Response, no content), and the call
\* raises on nothing else; the response that failed is the last one the
\* call received, so no request follows it.
Accepted == response.status_code \in Success(LastOp)
Invalid == \E j \in 1..Len(Body) : ~Valid(Shape, Body[j])
C20_ValidationErrorPropagates ==
    (pc = "returned" /\ Shape # "none") =>
        /\ (Accepted /\ Invalid) =>
              /\ result.kind = "raise"
              /\ result.exc \in {"ValidationError", "KeyError"}
              /\ result.content = NullContent
              /\ result.status_code = 0
        /\ result.kind = "raise" => (Accepted /\ Invalid)
C20_Witness ==
    /\ pc = "returned" /\ call.op = "move_file" /\ Len(sent) = 2
    /\ LastOp = "get_dir_info" /\ Accepted /\ Invalid
    /\ result.kind = "raise" /\ result.exc = "ValidationError"

\* ---------------------------------------------------------------- C21
\* C21: auth raises when the token endpoint answers with a status other than
\* 200, so that no client exists without a token: once __init__ has ended the
\* stored token is a string.
C21_ConstructedWithToken == pc # "new" => token.k = "str"

\* ---------------------------------------------------------------- C22
\* C22: move_file raises RuntimeError when the source file or the
\* destination folder cannot be found or the move itself fails: a move_file
\* call whose last response is not a 200 ends in a RuntimeError.
C22_MoveFailureRaises ==
    (pc = "returned" /\ call.op = "move_file" /\ response.status_code # 200)
        => (result.kind = "raise" /\ result.exc = "RuntimeError")

\* ---------------------------------------------------------------- C23
\* A download_all_files call whose listing was answered 200 and validated;
\* the listed items are the validated records of the listing's body.
ListingDone ==
    /\ pc = "returned"
    /\ call.op = "download_all_files"
    /\ result.kind = "return"
    /\ received[1].status_code = 200
Listed == handle_response("ListDir", "list", received[1].body).content.items
WithExtension(item) == item["extension"].k # "null"
ListedWithExtension == SelectSeq(Listed, WithExtension)
Pass == Str(<<"pass">>)
Fail == Str(<<"fail">>)

\* C23: after a successful listing download_all_files issues one download
\* per listed item whose extension is not null, in listing order, and
\* nothing else; the result list has one entry per such item in the same
\* order, with status "pass" exactly when that item's download returned 200
\* and "fail" otherwise.
DownloadedAre(wanted) ==
    /\ Len(sent) = 1 + Len(wanted)
    /\ Len(received) = Len(sent)
    /\ Len(result.content.items) = Len(wanted)
    /\ \A i \in 1..Len(wanted) :
        /\ sent[i + 1].op = "download_file"
        /\ \A k \in {"id", "name", "extension"} : result.content.items[i][k] = wanted[i][k]
        /\ result.content.items[i]["status"] =
               (IF received[i + 1].status_code = 200 THEN Pass ELSE Fail)
C23_DownloadsListedWithExtension == ListingDone => DownloadedAre(ListedWithExtension)

\* A listing of a file without extension, a file whose download fails and a
\* file whose download succeeds.
C23_Witness ==
    /\ ListingDone
    /\ Len(received[1].body) = 3
    /\ received[1].body[1]["name"] = Str(<<"a">>)
    /\ Len(sent) = 3
    /\ received[2].status_code = 404
    /\ received[3].status_code = 200
    /\ result.content.items[1]["status"] = Fail
    /\ result.content.items[2]["status"] = Pass

\* ---------------------------------------------------------------- C24
RequestedPath == call.path
ListDirReturned ==
    /\ pc = "returned"
    /\ call.op = "list_dir"
    /\ result.kind = "return"
    /\ result.content.k = "list"

\* C24 (as stated): on success every item list_dir returns has path equal to
\* the requested path argument, or "/" when the path argument is null.
C24_PathIsArgumentOrRoot ==
    ListDirReturned =>
        \A j \in 1..Len(result.content.items) :
            result.content.items[j]["path"] =
                (IF RequestedPath.k = "null" THEN Str(<<"/">>) ELSE RequestedPath)

\* C24 (amended): on success every item list_dir returns has path equal to
\* the requested path argument, or "/" when the path argument is null or the
\* empty string, whatever the raw object contained.
C24_PathIsArgumentOrRootWhenEmpty ==
    ListDirReturned =>
        \A j \in 1..Len(result.content.items) :
            result.content.items[j]["path"] =
                (IF RequestedPath.k = "null" \/ RequestedPath = Str(<<>>)
                 THEN Str(<<"/">>) ELSE RequestedPath)

\* A listing of "docs" whose raw object carried a path of its own.
C24_Witness ==
    /\ ListDirReturned
    /\ RequestedPath = Str(<<"docs">>)
    /\ Len(result.content.items) > 0
    /\ response.body[1]["path"].k = "str"
    /\ response.body[1]["path"] # RequestedPath

\* ---------------------------------------------------------------- C25
\* C25: a lastModifiedBy whose "user" key holds null (or another value that
\* is not a mapping) does not fail validation: neither derived field raises,
\* and last_modified_by_name and last_modified_by_email are null.
UserNotMapping(p) == p.k = "map" /\ p.user.k \notin {"absent", "map"}
C25_NullUserIsNull ==
    (Handled /\ Shape \in {"ListDir", "GetFileInfo"}) =>
        \A j \in 1..Len(Body) :
            UserNotMapping(Body[j]["lastModifiedBy"]) =>
                /\ ~ErrorAt(j, "last_modified_by_name", "TypeError")
                /\ ~ErrorAt(j, "last_modified_by_email", "TypeError")
                /\ Normalized => Items[j]["last_modified_by_email"] = None

\* ---------------------------------------------------------------- C26
MoveEnded == pc = "returned" /\ call.op = "move_file"
MoveOrder == <<"get_file_info", "get_dir_info", "move_file">>
\* The requests follow the fixed order, and each step is taken only after
\* every lookup before it returned exactly 200.
MoveInOrder ==
    /\ Len(sent) \in 1..3
    /\ Len(received) = Len(sent)
    /\ \A i \in 1..Len(sent) : sent[i].op = MoveOrder[i]
    /\ \A i \in 2..Len(sent) : \A x \in 1..(i - 1) : received[x].status_code = 200
\* The call stopped at lookup i: no request after it, its status handed back
\* with null content.
StatusOf(i) ==
    /\ Len(sent) = i
    /\ result.kind = "return"
    /\ result.status_code = received[i].status_code
    /\ result.content = NullContent
FirstNot200(i) ==
    /\ i \in 1..2
    /\ i <= Len(received)
    /\ received[i].status_code # 200
    /\ \A x \in 1..(i - 1) : received[x].status_code = 200

Lookup202Invalid(i) ==
    /\ i = 1
    /\ received[1].status_code = 202
    /\ ~Valid("GetFileInfo", received[1].body[1])
C26_WitnessFolder ==
    /\ MoveEnded
    /\ FirstNot200(2)
    /\ StatusOf(2)

\* ---------------------------------------------------------------- C27
\* The members of the listing's raw body that carry no folder marker.
NotFolder(raw) == raw["folder"].k \in {"absent", "null"}
ListedFiles == SelectSeq(received[1].body, NotFolder)

\* C27: download_all_files never issues a download request for a listed
\* item that is a folder (one whose folder marker is not null), whatever the
\* folder's name: the downloads are downloads of listed files, so there are
\* no more of them than the listing has members without folder marker.
C27_NoFolderDownloaded ==
    ListingDone => Len(sent) - 1 <= Len(ListedFiles)

\* ---------------------------------------------------------------- C28
DownloadAllReturned ==
    /\ pc = "returned"
    /\ call.op = "download_all_files"
    /\ result.kind = "return"

\* C28: download_all_files reports the listing's status, not the
\* downloads': a listing answered with a status other than 200 gives that
\* status with null content and no download request; a listing answered 200
\* gives status 200 with the per-file result list, one entry per download
\* issued, whatever the downloads' statuses, and a failed download is
\* followed by the downloads of the remaining items.
C28_ReportsListingStatus ==
    DownloadAllReturned =>
        /\ result.status_code = received[1].status_code
        /\ received[1].status_code # 200 =>
              /\ result.content = NullContent
              /\ Len(sent) = 1
        /\ received[1].status_code = 200 =>
              /\ result.content.k = "summary"
              /\ Len(result.content.items) = Len(sent) - 1
              /\ Len(received) = Len(sent)

\* Every download of a listing of two files failed: status 200 all the same.
C28_Witness ==
    /\ DownloadAllReturned
    /\ Len(sent) = 3
    /\ received[2].status_code = 404
    /\ received[3].status_code = 404
    /\ result.status_code = 200
    /\ result.content.items[2]["status"] = Fail

\* ---------------------------------------------------------------- C29
\* The methods that take save_as.
SaveAsOps ==
    { "get_site_info", "get_hostname_info", "list_drives", "get_dir_info", "list_dir",
      "create_dir", "rename_folder", "get_file_info", "move_file", "rename_file",
      "upload_file", "list_lists", "list_list_columns", "list_list_items",
      "add_list_item" }
\* The method's own request was answered with one of its success codes and
\* the caller named a file.
Exports ==
    /\ call.save_as.k # "null"
    /\ LastOp = call.op
    /\ response.status_code \in Success(call.op)

\* C29: a method that takes save_as writes the raw response body to that
\* file exactly when save_as is not null and the status of its response is
\* one of its success codes, and writes no other file; the export precedes
\* validation, so a call that ends in the exception of a failed validation
\* has already written the file.
C29_ExportIffSuccess ==
    /\ [][(pc' = "returned" /\ call'.op \in SaveAsOps) =>
            files' = files \cup (IF Exports' THEN {call'.save_as} ELSE {})]_vars
    /\ [](( /\ pc = "returned" /\ call.op \in SaveAsOps
            /\ result.kind = "raise" /\ LastOp = call.op /\ call.save_as.k # "null")
          => call.save_as \in files)

\* The first call of a client: validation failed, the file is there.
C29_Witness ==
    /\ pc = "returned" /\ call.op = "get_site_info"
    /\ result.kind = "raise"
    /\ files = {call.save_as}

\* ---------------------------------------------------------------- C30
\* The call returned a Response: that of the last request, or for
\* download_all_files that of the listing.
RemoteStatus ==
    IF call.op = "download_all_files" THEN received[1].status_code
    ELSE response.status_code

====
